---- MODULE Spec2Model ----
(***************************************************************************)
(* fetch_4chan: the command-line run (fetch_threads.main), the fetch       *)
(* session (fetcher.network.FourChanFetcher) and the record writer         *)
(* (fetcher.utils.save_to_json), as a state machine.                       *)
(*                                                                         *)
(* One step of the model is one blocking point of the program: a network   *)
(* request being issued, its response arriving, a file being opened, one   *)
(* file.write call, the orchestrator's sleep.  The worker threads of the   *)
(* ThreadPoolExecutor interleave at these points.                          *)
(***************************************************************************)
EXTENDS Integers, Sequences, FiniteSets, TLC

VARIABLES
    args,        \* the command line: [board, threads, offset]
    runState,    \* where the run is: Idle, Constructed, CatalogRequested, ...
    exc,         \* the exception that ended the run ("none" while there is none)
    exitCode,    \* the process's exit status (-1 while it runs)
    catalog,     \* fetch_catalog's return value
    selected,    \* selected_threads
    tasks,       \* the futures, in submission order: [no, st, data, k]
    observed,    \* the futures as_completed has yielded so far
    orch,        \* the orchestrator inside its loop: "waiting" or "sleeping"
    sleeps,      \* time.sleep(1) calls of this run
    requests,    \* the URLs this run has issued a GET for
    dirs,        \* the directories that exist
    fs,          \* the files that exist: path -> sequence of written chunks
    fsAtStart,   \* fs as the run found it
    history,     \* thread number -> the thread_data of its completed tasks
    disk,        \* "healthy", or "faulty": file system calls may fail
    remote,      \* the remote board: its catalog and the version of each thread
    runsLeft     \* how many more times the command is run again

vars == <<args, runState, exc, exitCode, catalog, selected, tasks, observed,
          orch, sleeps, requests, dirs, fs, fsAtStart, history, disk,
          remote, runsLeft>>

-----------------------------------------------------------------------------
(* Bounds of the model. *)

\* The command is run at most 1 + MaxReruns times over the same output directory.
MaxReruns == 1

\* The largest catalog of the pool specification has MAX_WORKERS + PoolExtra threads.
PoolExtra == 1

\* The catalogs of the selection specification list up to MaxCatalog threads.
MaxCatalog == 4

\* Its thread counts and offsets range over -MaxArg..MaxArg.
MaxArg == 5

\* The threads of the extraction specification have up to MaxPosts posts.
MaxPosts == 2

-----------------------------------------------------------------------------
(* Program constants. *)

BASE_URL == "https://a.4cdn.org"

IMAGE_URL == "https://i.4cdn.org"

MAX_WORKERS == 5

valid_boards == <<"po", "g", "b", "hr", "biz", "fit", "pol", "sci", "tech", "news">>

-----------------------------------------------------------------------------
(* Python helpers. *)

\* dict.get(key, default)
Get(d, key, default) == IF key \in DOMAIN d THEN d[key] ELSE default

\* x in list
InList(x, list) == \E i \in 1..Len(list) : list[i] = x

\* One bound of a slice, clamped as Python clamps it for a list of length n.
SliceIndex(i, n) ==
    IF i < 0 THEN (IF i + n < 0 THEN 0 ELSE i + n)
    ELSE IF i > n THEN n ELSE i

\* list[start:stop] with a start past the end falling back to the last element.
PySliceStartAtLast(list, start, stop) ==
    LET a == IF start >= Len(list) /\ Len(list) > 0 THEN Len(list) - 1
             ELSE SliceIndex(start, Len(list))
        b == SliceIndex(stop, Len(list))
    IN  IF a < b THEN SubSeq(list, a + 1, b) ELSE <<>>

\* list[start:stop]
PySlice(list, start, stop) ==
    LET a == SliceIndex(start, Len(list))
        b == SliceIndex(stop, Len(list))
    IN  IF a < b THEN SubSeq(list, a + 1, b) ELSE <<>>

RECURSIVE Flatten(_)
\* all_threads after the loop over the catalog's pages
Flatten(pages) ==
    IF pages = <<>> THEN <<>>
    ELSE Get(Head(pages), "threads", <<>>) \o Flatten(Tail(pages))

\* [thread['no'] for thread in list]
Numbers(list) == [i \in 1..Len(list) |-> list[i]["no"]]

\* selected_threads with the slice's end taken for a count: all_threads[offset:threads]
SelectThreadsEndIsCount(cat, threads, offset) ==
    Numbers(PySlice(Flatten(cat), offset, threads))

\* selected_threads
SelectThreads(cat, threads, offset) ==
    Numbers(PySlice(Flatten(cat), offset, offset + threads))

-----------------------------------------------------------------------------
(* The remote service and the file system, as the program sees them. *)

\* <api-base>/<board>/catalog.json
catalog_url(board) == <<BASE_URL, "/", board, "/catalog.json">>

\* <api-base>/<board>/thread/<thread_no>.json
thread_url(board, thread_no) == <<BASE_URL, "/", board, "/thread/", thread_no, ".json">>

IsThreadUrl(url) == Len(url) = 6 /\ url[4] = "/thread/"

\* os.path.join(output_dir, board)
base_path(board) == <<board>>

\* os.path.join(base_path, 'images')
images_path(board) == <<board, "images">>

\* os.path.join(self.base_path, 'thread_list.json')
thread_list_file(board) == <<board, "thread_list.json">>

\* os.path.join(self.base_path, 'images', f"{board}-{thread_no}_ImageURLs.json")
image_file(board, thread_no) == <<board, "images", thread_no>>

\* json.dumps(entry): the text of one JSON object
JsonDumps(entry) == [json |-> entry]

NL == [nl |-> TRUE]

\* The record and its newline written by two file.write calls.
WriteCallsSeparateNewline(entry) == << <<JsonDumps(entry)>>, <<NL>> >>

\* The argument of each file.write call that save_to_json makes for one entry.
WriteCalls(entry) == << <<JsonDumps(entry), NL>> >>

\* open(filename, mode): 'a' creates a missing file, 'w' creates or truncates.
OpenFile(files, path, mode) ==
    IF mode = "w" \/ path \notin DOMAIN files
    THEN [p \in DOMAIN files \cup {path} |-> IF p = path THEN <<>> ELSE files[p]]
    ELSE files

\* file.write(text) on an open file: the text goes to the end of the file.
WriteFile(files, path, text) == [files EXCEPT ![path] = @ \o text]

\* mode = 'a' if append else 'w'
Mode(append) == IF append THEN "a" ELSE "w"

-----------------------------------------------------------------------------
(* Extraction. *)

\* post['no'] with every other field: a post that lacks 'name' raises as well.
thread_starter_error_name_required(thread_data) ==
    IF \E j \in 1..Len(Get(thread_data, "posts", <<>>)) :
          LET post == Get(thread_data, "posts", <<>>)[j] IN
          "sub" \in DOMAIN post /\ ("no" \notin DOMAIN post \/ "name" \notin DOMAIN post)
    THEN "KeyError" ELSE "none"

\* What building thread_starter_data raises: post['no'] is a KeyError for a
\* post that has 'sub' and lacks 'no'; "none" when the list is built.
thread_starter_error(thread_data) ==
    IF \E j \in 1..Len(Get(thread_data, "posts", <<>>)) :
          LET post == Get(thread_data, "posts", <<>>)[j] IN
          "sub" \in DOMAIN post /\ "no" \notin DOMAIN post
    THEN "KeyError" ELSE "none"

\* What building images_info raises: post['no'] is a KeyError for a post that
\* has 'tim' and 'ext' and lacks 'no'; "none" when the list is built.
images_info_error(thread_data) ==
    IF \E j \in 1..Len(Get(thread_data, "posts", <<>>)) :
          LET post == Get(thread_data, "posts", <<>>)[j] IN
          "tim" \in DOMAIN post /\ "ext" \in DOMAIN post /\ "no" \notin DOMAIN post
    THEN "KeyError" ELSE "none"

\* thread_starter_data taken from the opening post alone.
thread_starter_data_opening_post(thread_data) ==
    LET posts == PySlice(Get(thread_data, "posts", <<>>), 0, 1)
        starters == SelectSeq(posts, LAMBDA post : "sub" \in DOMAIN post)
    IN  [i \in 1..Len(starters) |->
            [no |-> starters[i]["no"],
             now |-> Get(starters[i], "now", ""),
             name |-> Get(starters[i], "name", ""),
             sub |-> Get(starters[i], "sub", ""),
             time |-> Get(starters[i], "time", 0),
             semantic_url |-> Get(starters[i], "semantic_url", ""),
             replies |-> Get(starters[i], "replies", 0),
             images |-> Get(starters[i], "images", 0)]]

\* thread_starter_data of save_thread_starter
thread_starter_data(thread_data) ==
    LET posts == Get(thread_data, "posts", <<>>)
        starters == SelectSeq(posts, LAMBDA post : "sub" \in DOMAIN post)
    IN  [i \in 1..Len(starters) |->
            [no |-> starters[i]["no"],
             now |-> Get(starters[i], "now", ""),
             name |-> Get(starters[i], "name", ""),
             sub |-> Get(starters[i], "sub", ""),
             time |-> Get(starters[i], "time", 0),
             semantic_url |-> Get(starters[i], "semantic_url", ""),
             replies |-> Get(starters[i], "replies", 0),
             images |-> Get(starters[i], "images", 0)]]

\* images_info with the url built on the API's base instead of the image base.
images_info_api_base(thread_data, board) ==
    LET posts == Get(thread_data, "posts", <<>>)
        withImage == SelectSeq(posts, LAMBDA post :
                                   "tim" \in DOMAIN post /\ "ext" \in DOMAIN post)
    IN  [i \in 1..Len(withImage) |->
            [no |-> withImage[i]["no"],
             now |-> Get(withImage[i], "now", ""),
             name |-> Get(withImage[i], "name", ""),
             com |-> Get(withImage[i], "com", ""),
             filename |-> Get(withImage[i], "filename", ""),
             ext |-> Get(withImage[i], "ext", ""),
             w |-> Get(withImage[i], "w", 0),
             h |-> Get(withImage[i], "h", 0),
             time |-> Get(withImage[i], "time", 0),
             md5 |-> Get(withImage[i], "md5", ""),
             fsize |-> Get(withImage[i], "fsize", 0),
             resto |-> Get(withImage[i], "resto", 0),
             url |-> <<BASE_URL, "/", board, "/",
                       withImage[i]["tim"], withImage[i]["ext"]>>]]

\* images_info of save_image_posts
images_info(thread_data, board) ==
    LET posts == Get(thread_data, "posts", <<>>)
        withImage == SelectSeq(posts, LAMBDA post :
                                   "tim" \in DOMAIN post /\ "ext" \in DOMAIN post)
    IN  [i \in 1..Len(withImage) |->
            [no |-> withImage[i]["no"],
             now |-> Get(withImage[i], "now", ""),
             name |-> Get(withImage[i], "name", ""),
             com |-> Get(withImage[i], "com", ""),
             filename |-> Get(withImage[i], "filename", ""),
             ext |-> Get(withImage[i], "ext", ""),
             w |-> Get(withImage[i], "w", 0),
             h |-> Get(withImage[i], "h", 0),
             time |-> Get(withImage[i], "time", 0),
             md5 |-> Get(withImage[i], "md5", ""),
             fsize |-> Get(withImage[i], "fsize", 0),
             resto |-> Get(withImage[i], "resto", 0),
             url |-> <<IMAGE_URL, "/", board, "/",
                       withImage[i]["tim"], withImage[i]["ext"]>>]]

-----------------------------------------------------------------------------
(* What the remote board serves. *)

\* The opening post of thread n: a subject and an attached file.
OpeningPost(n) == [no |-> n, sub |-> "subject", name |-> "Anonymous",
                   tim |-> 1000 + n, ext |-> ".jpg"]

\* A reply in thread n with an attached file.
ImagePost(n) == [no |-> 100 * n + 1, resto |-> n, tim |-> 2000 + n, ext |-> ".png"]

\* A reply in thread n without subject and without file.
TextPost(n) == [no |-> 100 * n + 2, com |-> "text", resto |-> n]

\* A post in thread n that carries a subject and a file of its own.
SubjectPost(n) == [no |-> 100 * n + 3, sub |-> "re", resto |-> n,
                   tim |-> 3000 + n, ext |-> ".gif"]

\* The body of <api-base>/<board>/thread/<n>.json in version v of the thread.
ThreadJson(n, v) ==
    CASE v = 0 -> [posts |-> <<>>]
      [] v = 1 -> [posts |-> <<OpeningPost(n)>>]
      [] v = 2 -> [posts |-> <<OpeningPost(n), TextPost(n), ImagePost(n)>>]
      [] OTHER -> [posts |-> <<OpeningPost(n), SubjectPost(n)>>]

\* The body the remote serves for thread n: the posts it lists for the thread,
\* or else the thread in its current version.
ThreadBody(rem, n) ==
    IF "posts" \in DOMAIN rem
    THEN [posts |-> rem.posts[n]]
    ELSE ThreadJson(n, rem.version[n])

\* The versions the threads are in when the command is run again.
RerunVersions == {2}

\* The thread a post number belongs to: replies of thread n are numbered from 100 * n.
ThreadOf(post_no) == IF post_no >= 100 THEN post_no \div 100 ELSE post_no

\* A catalog page listing the given thread numbers.
Page(p, nos) == [page |-> p, threads |-> [i \in 1..Len(nos) |-> [no |-> nos[i]]]]

\* How a file system call can end on the given disk.
DiskOutcomes(d) == IF d = "faulty" THEN {"ok", "IOError"} ELSE {"ok"}

\* How a request can end: the three caught transport errors and the decode error.
RequestErrors == {"HTTPError", "ConnectionError", "Timeout", "JSONDecodeError"}

-----------------------------------------------------------------------------
(* The tasks of the pool. *)

\* thread_data before the response has arrived
NoData == [pending |-> TRUE]

NewTask(thread_no) == [no |-> thread_no, st |-> "queued", data |-> NoData, k |-> 0]

\* A future that is never resolved when its task has failed.
FinishedOnlyOk(t) == t.st = "ok"

\* The future of the task is done (fetch_and_save_thread has returned).
Finished(t) == t.st \in {"ok", "failed"}

\* A worker is running the task: started and not yet completed.
Running(t) == t.st \in {"fetching", "fetched", "starter", "saved_starter", "images"}

RunningTasks == {i \in 1..Len(tasks) : Running(tasks[i])}

QueuedTasks == {i \in 1..Len(tasks) : tasks[i].st = "queued"}

RECURSIVE Concat(_)
Concat(seqs) == IF seqs = <<>> THEN <<>> ELSE Head(seqs) \o Concat(Tail(seqs))

\* Every file.write call save_to_json makes for data, in order.
AllWriteCalls(data) == Concat([i \in 1..Len(data) |-> WriteCalls(data[i])])

\* save_thread_starter's call of save_to_json: what, where, append=True
StarterSave(board, t) ==
    [data |-> thread_starter_data(t.data),
     filename |-> thread_list_file(board),
     append |-> TRUE]

\* save_image_posts leaving append at its default, True.
ImageSaveAppend(board, t) ==
    [data |-> images_info(t.data, board),
     filename |-> image_file(board, t.no),
     append |-> TRUE]

\* save_image_posts' call of save_to_json: what, where, append=False
ImageSave(board, t) ==
    [data |-> images_info(t.data, board),
     filename |-> image_file(board, t.no),
     append |-> FALSE]

\* The save_to_json call the task is in, or is about to make.
CurrentSave(board, t) ==
    IF t.st \in {"fetched", "starter"} THEN StarterSave(board, t) ELSE ImageSave(board, t)

\* What the task raises while it builds the records of that call.
CurrentError(t) ==
    IF t.st \in {"fetched", "starter"} THEN thread_starter_error(t.data)
    ELSE images_info_error(t.data)

\* Where fetch_and_save_thread goes once the current save_to_json call has returned.
AfterSave(st) == IF st \in {"fetched", "starter"} THEN "saved_starter" ELSE "ok"

\* The state of the task while the file of the current save_to_json call is open.
Writing(st) == IF st \in {"fetched", "starter"} THEN "starter" ELSE "images"

-----------------------------------------------------------------------------
(* The run: main, FourChanFetcher.__init__ and fetch_top_threads. *)

\* The run ends with an exception reaching main's handlers: exit status 1.
Abort(e) ==
    /\ runState' = "Aborted"
    /\ exc' = e
    /\ exitCode' = 1

\* validate_board_name without its raise: every board passes.
validate_board_name_accepts(board) == "none"

\* validate_board_name: the exception it raises, "none" when it returns.
validate_board_name(board) ==
    IF ~InList(board, valid_boards) THEN "ValueError" ELSE "none"

\* create_directories when os.makedirs succeeds.
create_directories(board, existing) == existing \cup {base_path(board), images_path(board)}

\* main up to the end of FourChanFetcher.__init__.
main_construct ==
    /\ runState = "Idle"
    /\ IF validate_board_name(args.board) # "none"
       THEN /\ Abort(validate_board_name(args.board))
            /\ UNCHANGED dirs
       ELSE \E made \in IF disk = "faulty" THEN {"all", "base", "nothing"} ELSE {"all"} :
              IF made = "all"
              THEN /\ dirs' = create_directories(args.board, dirs)
                   /\ runState' = "Constructed"
                   /\ UNCHANGED <<exc, exitCode>>
              ELSE /\ dirs' = IF made = "base" THEN dirs \cup {base_path(args.board)}
                                               ELSE dirs
                   /\ Abort("OSError")
    /\ UNCHANGED <<args, catalog, selected, tasks, observed, orch, sleeps, requests,
                   fs, fsAtStart, history, disk, remote, runsLeft>>

\* fetch_catalog: the GET is issued.
fetch_catalog_request ==
    /\ runState = "Constructed"
    /\ runState' = "CatalogRequested"
    /\ requests' = requests \cup {catalog_url(args.board)}
    /\ UNCHANGED <<args, exc, exitCode, catalog, selected, tasks, observed, orch,
                   sleeps, dirs, fs, fsAtStart, history, disk, remote, runsLeft>>

\* fetch_catalog logging a failure without raising it: fetch_top_threads goes on
\* with an empty catalog.
fetch_catalog_response_swallow ==
    /\ runState = "CatalogRequested"
    /\ \E outcome \in {"ok"} \cup RequestErrors :
         /\ catalog' = IF outcome = "ok" THEN remote.catalog ELSE <<>>
         /\ exc' = IF outcome = "ok" THEN exc ELSE outcome
         /\ runState' = "CatalogFetched"
         /\ UNCHANGED exitCode
    /\ UNCHANGED <<args, selected, tasks, observed, orch, sleeps, requests, dirs,
                   fs, fsAtStart, history, disk, remote, runsLeft>>

\* fetch_catalog: the response arrives, or the request fails; a failure is logged
\* and raised through fetch_top_threads to main.
fetch_catalog_response ==
    /\ runState = "CatalogRequested"
    /\ \E outcome \in {"ok"} \cup RequestErrors :
         IF outcome = "ok"
         THEN /\ catalog' = remote.catalog
              /\ runState' = "CatalogFetched"
              /\ UNCHANGED <<exc, exitCode>>
         ELSE /\ Abort(outcome)
              /\ UNCHANGED catalog
    /\ UNCHANGED <<args, selected, tasks, observed, orch, sleeps, requests, dirs,
                   fs, fsAtStart, history, disk, remote, runsLeft>>

\* fetch_top_threads: all_threads and selected_threads.
select_threads ==
    /\ runState = "CatalogFetched"
    /\ selected' = SelectThreads(catalog, args.threads, args.offset)
    /\ runState' = "ThreadsSelected"
    /\ UNCHANGED <<args, exc, exitCode, catalog, tasks, observed, orch, sleeps,
                   requests, dirs, fs, fsAtStart, history, disk, remote, runsLeft>>

\* executor.submit called for the selected threads from the last to the first.
executor_submit_reversed ==
    /\ runState = "ThreadsSelected"
    /\ Len(tasks) < Len(selected)
    /\ tasks' = Append(tasks, NewTask(selected[Len(selected) - Len(tasks)]))
    /\ UNCHANGED <<args, runState, exc, exitCode, catalog, selected, observed, orch,
                   sleeps, requests, dirs, fs, fsAtStart, history, disk, remote, runsLeft>>

\* executor.submit(self.fetch_and_save_thread, thread_no) for the next selected thread.
executor_submit ==
    /\ runState = "ThreadsSelected"
    /\ Len(tasks) < Len(selected)
    /\ tasks' = Append(tasks, NewTask(selected[Len(tasks) + 1]))
    /\ UNCHANGED <<args, runState, exc, exitCode, catalog, selected, observed, orch,
                   sleeps, requests, dirs, fs, fsAtStart, history, disk, remote, runsLeft>>

\* The futures dict is complete: the orchestrator enters as_completed.
as_completed_enter ==
    /\ runState = "ThreadsSelected"
    /\ Len(tasks) = Len(selected)
    /\ runState' = "Fetching"
    /\ orch' = "waiting"
    /\ UNCHANGED <<args, exc, exitCode, catalog, selected, tasks, observed, sleeps,
                   requests, dirs, fs, fsAtStart, history, disk, remote, runsLeft>>

-----------------------------------------------------------------------------
(* The workers: fetch_and_save_thread, fetch_thread and save_to_json. *)

\* A pool that starts a worker for every work item.
WorkerAvailableUnbounded == TRUE

\* ThreadPoolExecutor(max_workers=5): a worker is free to take the next work item.
WorkerAvailable == Cardinality(RunningTasks) < MAX_WORKERS

\* The completed tasks of a thread that had fetched it, oldest first.
Hist(n) == IF n \in DOMAIN history THEN history[n] ELSE <<>>

Record(n, data, ok) ==
    [m \in DOMAIN history \cup {n} |->
        IF m = n THEN Append(Hist(n), [data |-> data, ok |-> ok]) ELSE history[m]]

\* A failing task that takes the work items still queued down with it: they end
\* as failed without having run.
TaskFailsSkipsQueued(i) ==
    /\ tasks' = [j \in 1..Len(tasks) |->
                    IF j = i \/ tasks[j].st = "queued"
                    THEN [tasks[j] EXCEPT !.st = "failed"]
                    ELSE tasks[j]]
    /\ history' = IF tasks[i].data = NoData THEN history
                  ELSE Record(tasks[i].no, tasks[i].data, FALSE)

\* A failure of the thread-starter save logged inside save_thread_starter: the
\* task goes on to save_image_posts.
TaskFailsStarterSwallowed(i) ==
    /\ tasks' = [tasks EXCEPT ![i].st = IF tasks[i].st \in {"fetched", "starter"}
                                        THEN "saved_starter" ELSE "failed",
                              ![i].k = 0]
    /\ history' = IF tasks[i].data = NoData \/ tasks[i].st \in {"fetched", "starter"}
                  THEN history
                  ELSE Record(tasks[i].no, tasks[i].data, FALSE)

\* except Exception in fetch_and_save_thread: the task ends, logged as failed.
TaskFails(i) ==
    /\ tasks' = [tasks EXCEPT ![i].st = "failed"]
    /\ history' = IF tasks[i].data = NoData THEN history
                  ELSE Record(tasks[i].no, tasks[i].data, FALSE)

\* A pool whose workers take a work item only while the orchestrator is not
\* in its delay.
worker_start_between_delays(i) ==
    /\ runState \in {"ThreadsSelected", "Fetching"}
    /\ orch = "waiting"
    /\ i \in QueuedTasks
    /\ \A j \in QueuedTasks : i <= j
    /\ WorkerAvailable
    /\ tasks' = [tasks EXCEPT ![i].st = "fetching"]
    /\ requests' = requests \cup {thread_url(args.board, tasks[i].no)}
    /\ UNCHANGED <<args, runState, exc, exitCode, catalog, selected, observed, orch,
                   sleeps, dirs, fs, fsAtStart, history, disk, remote, runsLeft>>

\* A worker takes the oldest queued work item and fetch_thread issues its GET.
worker_start(i) ==
    /\ runState \in {"ThreadsSelected", "Fetching"}
    /\ i \in QueuedTasks
    /\ \A j \in QueuedTasks : i <= j
    /\ WorkerAvailable
    /\ tasks' = [tasks EXCEPT ![i].st = "fetching"]
    /\ requests' = requests \cup {thread_url(args.board, tasks[i].no)}
    /\ UNCHANGED <<args, runState, exc, exitCode, catalog, selected, observed, orch,
                   sleeps, dirs, fs, fsAtStart, history, disk, remote, runsLeft>>

\* A failed fetch after which the thread's image file is emptied.
fetch_thread_response_resets_file(i) ==
    /\ i \in 1..Len(tasks)
    /\ tasks[i].st = "fetching"
    /\ \E outcome \in {"ok"} \cup RequestErrors :
         IF outcome = "ok"
         THEN /\ tasks' = [tasks EXCEPT ![i].st = "fetched",
                                        ![i].data = ThreadBody(remote, tasks[i].no)]
              /\ UNCHANGED <<history, fs>>
         ELSE /\ TaskFails(i)
              /\ fs' = OpenFile(fs, image_file(args.board, tasks[i].no), "w")
    /\ UNCHANGED <<args, runState, exc, exitCode, catalog, selected, observed, orch,
                   sleeps, requests, dirs, fsAtStart, disk, remote, runsLeft>>

\* fetch_thread: the response arrives, or the request fails and the exception is
\* caught by fetch_and_save_thread.
fetch_thread_response(i) ==
    /\ i \in 1..Len(tasks)
    /\ tasks[i].st = "fetching"
    /\ \E outcome \in {"ok"} \cup RequestErrors :
         IF outcome = "ok"
         THEN /\ tasks' = [tasks EXCEPT ![i].st = "fetched",
                                        ![i].data = ThreadBody(remote, tasks[i].no)]
              /\ UNCHANGED history
         ELSE TaskFails(i)
    /\ UNCHANGED <<args, runState, exc, exitCode, catalog, selected, observed, orch,
                   sleeps, requests, dirs, fs, fsAtStart, disk, remote, runsLeft>>

\* The task leaves save_to_json: on to save_image_posts, or to the end of the task.
SaveReturns(i) ==
    /\ tasks' = [tasks EXCEPT ![i].st = AfterSave(tasks[i].st), ![i].k = 0]
    /\ history' = IF AfterSave(tasks[i].st) = "ok"
                  THEN Record(tasks[i].no, tasks[i].data, TRUE)
                  ELSE history

\* save_thread_starter or save_image_posts up to save_to_json's open(filename,
\* mode): the records are built, which raises for a post without 'no', and the
\* file is opened; with nothing to write it is closed at once.  A KeyError and a
\* failing open raise to fetch_and_save_thread.
save_to_json_open(i) ==
    /\ i \in 1..Len(tasks)
    /\ tasks[i].st \in {"fetched", "saved_starter"}
    /\ IF CurrentError(tasks[i]) # "none"
       THEN /\ TaskFails(i)
            /\ UNCHANGED fs
       ELSE
       LET save == CurrentSave(args.board, tasks[i]) IN
       \E outcome \in DiskOutcomes(disk) :
         IF outcome = "ok"
         THEN /\ fs' = OpenFile(fs, save.filename, Mode(save.append))
              /\ IF AllWriteCalls(save.data) = <<>>
                 THEN SaveReturns(i)
                 ELSE /\ tasks' = [tasks EXCEPT ![i].st = Writing(tasks[i].st),
                                                ![i].k = 0]
                      /\ UNCHANGED history
         ELSE /\ TaskFails(i)
              /\ UNCHANGED fs
    /\ UNCHANGED <<args, runState, exc, exitCode, catalog, selected, observed, orch,
                   sleeps, requests, dirs, fsAtStart, disk, remote, runsLeft>>

\* save_to_json emptying the file when a write fails.
save_to_json_write_rollback(i) ==
    /\ i \in 1..Len(tasks)
    /\ tasks[i].st \in {"starter", "images"}
    /\ LET save == CurrentSave(args.board, tasks[i])
           calls == AllWriteCalls(save.data)
       IN
       \E outcome \in DiskOutcomes(disk) :
         IF outcome = "ok"
         THEN /\ fs' = WriteFile(fs, save.filename, calls[tasks[i].k + 1])
              /\ IF tasks[i].k + 1 = Len(calls)
                 THEN SaveReturns(i)
                 ELSE /\ tasks' = [tasks EXCEPT ![i].k = @ + 1]
                      /\ UNCHANGED history
         ELSE /\ TaskFails(i)
              /\ fs' = OpenFile(fs, save.filename, "w")
    /\ UNCHANGED <<args, runState, exc, exitCode, catalog, selected, observed, orch,
                   sleeps, requests, dirs, fsAtStart, disk, remote, runsLeft>>

\* save_to_json: the next file.write call; after the last one the file is closed.
\* A failing write raises to fetch_and_save_thread, what was written stays.
save_to_json_write(i) ==
    /\ i \in 1..Len(tasks)
    /\ tasks[i].st \in {"starter", "images"}
    /\ LET save == CurrentSave(args.board, tasks[i])
           calls == AllWriteCalls(save.data)
       IN
       \E outcome \in DiskOutcomes(disk) :
         IF outcome = "ok"
         THEN /\ fs' = WriteFile(fs, save.filename, calls[tasks[i].k + 1])
              /\ IF tasks[i].k + 1 = Len(calls)
                 THEN SaveReturns(i)
                 ELSE /\ tasks' = [tasks EXCEPT ![i].k = @ + 1]
                      /\ UNCHANGED history
         ELSE /\ TaskFails(i)
              /\ UNCHANGED fs
    /\ UNCHANGED <<args, runState, exc, exitCode, catalog, selected, observed, orch,
                   sleeps, requests, dirs, fsAtStart, disk, remote, runsLeft>>

-----------------------------------------------------------------------------
(* The orchestrator's loop over as_completed(futures). *)

\* The loop with a task's failure reaching it and raised on: the run aborts.
as_completed_next_reraise(i) ==
    /\ runState = "Fetching"
    /\ orch = "waiting"
    /\ i \in 1..Len(tasks)
    /\ i \notin observed
    /\ Finished(tasks[i])
    /\ observed' = observed \cup {i}
    /\ IF tasks[i].st = "failed"
       THEN /\ Abort("Exception")
            /\ UNCHANGED orch
       ELSE /\ orch' = "sleeping"
            /\ UNCHANGED <<runState, exc, exitCode>>
    /\ UNCHANGED <<args, catalog, selected, tasks, sleeps, requests, dirs, fs,
                   fsAtStart, history, disk, remote, runsLeft>>

\* The loop with the delay left out for a task that has failed.
as_completed_next_failure_undelayed(i) ==
    /\ runState = "Fetching"
    /\ orch = "waiting"
    /\ i \in 1..Len(tasks)
    /\ i \notin observed
    /\ Finished(tasks[i])
    /\ observed' = observed \cup {i}
    /\ orch' = IF tasks[i].st = "failed" THEN "waiting" ELSE "sleeping"
    /\ UNCHANGED <<args, runState, exc, exitCode, catalog, selected, tasks, sleeps,
                   requests, dirs, fs, fsAtStart, history, disk, remote, runsLeft>>

\* as_completed yields a finished future; future.result() returns, because
\* fetch_and_save_thread has caught whatever its task raised; then time.sleep(1).
as_completed_next(i) ==
    /\ runState = "Fetching"
    /\ orch = "waiting"
    /\ i \in 1..Len(tasks)
    /\ i \notin observed
    /\ Finished(tasks[i])
    /\ observed' = observed \cup {i}
    /\ orch' = "sleeping"
    /\ UNCHANGED <<args, runState, exc, exitCode, catalog, selected, tasks, sleeps,
                   requests, dirs, fs, fsAtStart, history, disk, remote, runsLeft>>

\* time.sleep(1) returns.
sleep_return ==
    /\ runState = "Fetching"
    /\ orch = "sleeping"
    /\ orch' = "waiting"
    /\ sleeps' = sleeps + 1
    /\ UNCHANGED <<args, runState, exc, exitCode, catalog, selected, tasks, observed,
                   requests, dirs, fs, fsAtStart, history, disk, remote, runsLeft>>

\* Every future has been yielded.
AllObserved == observed = 1..Len(tasks)

\* The executor's shutdown(wait=True) at the end of the with block has returned.
ExecutorIdle == \A i \in 1..Len(tasks) : Finished(tasks[i])

\* fetch_top_threads returning after the first completion, without waiting for
\* the executor.
fetch_top_threads_return_early ==
    /\ runState = "Fetching"
    /\ orch = "waiting"
    /\ observed # {}
    /\ runState' = "Done"
    /\ exitCode' = 0
    /\ UNCHANGED <<args, exc, catalog, selected, tasks, observed, orch, sleeps,
                   requests, dirs, fs, fsAtStart, history, disk, remote, runsLeft>>

\* as_completed is exhausted, the executor shuts down, fetch_top_threads returns
\* and main logs the success.
fetch_top_threads_return ==
    /\ runState = "Fetching"
    /\ orch = "waiting"
    /\ AllObserved
    /\ ExecutorIdle
    /\ runState' = "Done"
    /\ exitCode' = 0
    /\ UNCHANGED <<args, exc, catalog, selected, tasks, observed, orch, sleeps,
                   requests, dirs, fs, fsAtStart, history, disk, remote, runsLeft>>

\* The command is run again, on the output directory the earlier runs left.
main_again ==
    /\ runState \in {"Done", "Aborted"}
    /\ runsLeft > 0
    /\ runsLeft' = runsLeft - 1
    /\ runState' = "Idle"
    /\ exc' = "none"
    /\ exitCode' = -1
    /\ catalog' = <<>>
    /\ selected' = <<>>
    /\ tasks' = <<>>
    /\ observed' = {}
    /\ orch' = "waiting"
    /\ sleeps' = 0
    /\ requests' = {}
    /\ fsAtStart' = fs
    /\ \E v \in RerunVersions :
         remote' = [remote EXCEPT !.version = [n \in DOMAIN remote.version |-> v]]
    /\ UNCHANGED <<args, dirs, fs, history, disk>>

-----------------------------------------------------------------------------
(* Specifications. *)

\* A process that has not started, over an empty output directory.
Fresh ==
    /\ runState = "Idle"
    /\ exc = "none"
    /\ exitCode = -1
    /\ catalog = <<>>
    /\ selected = <<>>
    /\ tasks = <<>>
    /\ observed = {}
    /\ orch = "waiting"
    /\ sleeps = 0
    /\ requests = {}
    /\ dirs = {}
    /\ fs = <<>>
    /\ fsAtStart = <<>>
    /\ history = <<>>

\* The thread numbers of a catalog.
ThreadNos(cat) == {Flatten(cat)[i]["no"] : i \in 1..Len(Flatten(cat))}

\* The remote board with the given catalog, every thread in version v.
Remote(cat, v) == [catalog |-> cat, version |-> [n \in ThreadNos(cat) |-> v]]

Boards == {"g", "c"}

\* Three threads on two pages, with a page that lists none between them.
SmallCatalog == <<Page(1, <<2, 1>>), [page |-> 2], Page(3, <<3>>)>>

\* Two threads on one page.
PairCatalog == <<Page(1, <<5, 4>>)>>

\* The actions of one run.
Run ==
    \/ main_construct
    \/ fetch_catalog_request
    \/ fetch_catalog_response
    \/ select_threads
    \/ executor_submit
    \/ as_completed_enter
    \/ \E i \in 1..Len(tasks) : worker_start(i)
    \/ \E i \in 1..Len(tasks) : fetch_thread_response(i)
    \/ \E i \in 1..Len(tasks) : save_to_json_open(i)
    \/ \E i \in 1..Len(tasks) : save_to_json_write(i)
    \/ \E i \in 1..Len(tasks) : as_completed_next(i)
    \/ sleep_return
    \/ fetch_top_threads_return

\* One run of the command over a fresh output directory.
Init ==
    /\ Fresh
    /\ args \in [board : Boards, threads : {0, 1, 2, 3}, offset : {0, 1, 3}]
    /\ remote \in {Remote(SmallCatalog, v) : v \in {1, 2}}
                   \cup {Remote(PairCatalog, 3), Remote(<<>>, 1)}
    /\ disk = "faulty"
    /\ runsLeft = 0

Next == Run

Spec == Init /\ [][Next]_vars

\* The same, with every request and every file system call returning in the end
\* and the workers and the orchestrator being scheduled: the run does not stop
\* while it has a step to take.
FairSpec == Spec /\ WF_vars(Next)

\* The command run again and again over the same output directory.
InitRerun ==
    /\ Fresh
    /\ args \in [board : {"g"}, threads : {1, 2}, offset : {0}]
    /\ remote = Remote(SmallCatalog, 1)
    /\ disk = "faulty"
    /\ runsLeft = MaxReruns

NextRerun == Run \/ main_again

SpecRerun == InitRerun /\ [][NextRerun]_vars

\* A catalog of more threads than the pool has workers; only thread 1 has posts.
PoolCatalog == <<Page(1, [i \in 1..(MAX_WORKERS + PoolExtra) |-> i])>>

InitPool ==
    /\ Fresh
    /\ args \in [board : {"g"}, threads : {MAX_WORKERS + PoolExtra}, offset : {0}]
    /\ remote = [catalog |-> PoolCatalog,
                 version |-> [n \in ThreadNos(PoolCatalog) |-> IF n = 1 THEN 1 ELSE 0]]
    /\ disk = "healthy"
    /\ runsLeft = 0

SpecPool == InitPool /\ [][Next]_vars

\* A catalog of one thread more than the pool has workers; only the last has posts.
DelayCatalog == <<Page(1, [i \in 1..(MAX_WORKERS + 1) |-> i])>>

\* The run that keeps every worker busy while one task has completed.
InitDelay ==
    /\ Fresh
    /\ args \in [board : {"g"}, threads : {MAX_WORKERS + 1}, offset : {0}]
    /\ remote = [catalog |-> DelayCatalog,
                 version |-> [n \in ThreadNos(DelayCatalog) |->
                                 IF n = MAX_WORKERS + 1 THEN 1 ELSE 0]]
    /\ disk = "healthy"
    /\ runsLeft = 0

SpecDelay == InitDelay /\ [][Next]_vars

\* The catalog of the first t of the threads 4, 7, 3, 6, 2, 5, 1, ...: the first cut
\* of them on page 1, the others on page 3, and between them, if gap, a page
\* that has no 'threads' key.
SplitCatalog(t, cut, gap) ==
    LET nos == [i \in 1..t |-> ((3 * i) % 7) + 1 + 7 * (i \div 7)] IN
    <<Page(1, SubSeq(nos, 1, cut))>>
        \o (IF gap THEN <<[page |-> 2]>> ELSE <<>>)
        \o <<Page(3, SubSeq(nos, cut + 1, t))>>

SelectCatalogs ==
    {<<>>} \cup UNION {{SplitCatalog(t, cut, gap) : cut \in 0..t, gap \in BOOLEAN} :
                          t \in 1..MaxCatalog}

\* The run up to the selection, for every catalog, count and offset of the bounds.
InitSelect ==
    /\ Fresh
    /\ args \in [board : {"po"}, threads : (-MaxArg)..MaxArg, offset : (-MaxArg)..MaxArg]
    /\ remote \in {Remote(cat, 0) : cat \in SelectCatalogs}
    /\ disk = "healthy"
    /\ runsLeft = 0

NextSelect ==
    \/ main_construct
    \/ fetch_catalog_request
    \/ fetch_catalog_response
    \/ select_threads

SpecSelect == InitSelect /\ [][NextSelect]_vars

\* The fields a post of the extraction specification has or lacks.
PostFields == {"no", "sub", "tim", "ext", "name"}

\* The j-th post of a thread, with exactly the given fields.
PostWith(fields, j) ==
    [f \in fields |->
        CASE f = "no" -> j
          [] f = "sub" -> "subject"
          [] f = "tim" -> 1000 + j
          [] f = "ext" -> ".jpg"
          [] OTHER -> "Anonymous"]

\* Every thread of up to MaxPosts posts, each post with any of the fields.
ExtractThreads ==
    UNION {{[j \in 1..n |-> PostWith(has[j], j)] : has \in [1..n -> SUBSET PostFields]} :
              n \in 0..MaxPosts}

\* One thread in the catalog.
ExtractCatalog == <<Page(1, <<1>>)>>

\* The run for that thread, whatever posts the remote lists for it.
InitExtract ==
    /\ Fresh
    /\ args \in [board : {"g", "po"}, threads : {1}, offset : {0}]
    /\ remote \in {[catalog |-> ExtractCatalog,
                    version |-> [n \in ThreadNos(ExtractCatalog) |-> 0],
                    posts |-> [n \in ThreadNos(ExtractCatalog) |-> posts]] :
                       posts \in ExtractThreads}
    /\ disk = "healthy"
    /\ runsLeft = 0

SpecExtract == InitExtract /\ [][Next]_vars

-----------------------------------------------------------------------------
(* Properties. *)

Max(a, b) == IF a >= b THEN a ELSE b

Min(a, b) == IF a <= b THEN a ELSE b

\* The thread numbers of a catalog: page after page, each page's threads in order.
RECURSIVE CatalogNumbers(_)
CatalogNumbers(cat) ==
    IF cat = <<>> THEN <<>>
    ELSE LET last == cat[Len(cat)]
             nos == IF "threads" \in DOMAIN last
                    THEN [i \in 1..Len(last.threads) |-> last.threads[i].no]
                    ELSE <<>>
         IN  CatalogNumbers(SubSeq(cat, 1, Len(cat) - 1)) \o nos

\* The number at 0-based position p of a list, 0 where the list has no such position.
At(list, p) == IF p >= 0 /\ p < Len(list) THEN list[p + 1] ELSE 0

\* selected is the sub-sequence [offset, offset+count) of the flattened catalog.
SelectionIsSubsequence ==
    LET flat == CatalogNumbers(remote.catalog)
        n == Max(0, Min(args.threads, Len(flat) - args.offset))
    IN  /\ Len(selected) = n
        /\ \A j \in 1..Len(selected) : selected[j] = At(flat, args.offset + j - 1)

\* C1, as stated: for every catalog and for all values of count and offset,
\* fetch_top_threads selects exactly max(0, min(count, T - offset)) thread numbers,
\* the sub-sequence [offset, offset+count) of the flattened catalog in order.
C1_AnyArguments == runState = "ThreadsSelected" => SelectionIsSubsequence

\* C1, amended: the same for every count >= 0 and every offset >= 0.
C1_Selection ==
    (runState = "ThreadsSelected" /\ args.threads >= 0 /\ args.offset >= 0)
        => SelectionIsSubsequence

\* A selection cut short by the end of a catalog of two listing pages.
C1_Witness ==
    /\ runState = "ThreadsSelected"
    /\ args.offset > 0
    /\ args.offset + args.threads > Len(CatalogNumbers(remote.catalog))
    /\ Len(selected) >= 2
    /\ Len(remote.catalog) = 3
    /\ Len(remote.catalog[1].threads) = 2

-----------------------------------------------------------------------------
(* Reading the output files back. *)

\* The content of a file, empty when the file does not exist.
FileAt(files, path) == IF path \in DOMAIN files THEN files[path] ELSE <<>>

IsNewline(chunk) == "nl" \in DOMAIN chunk

IsJson(chunk) == "json" \in DOMAIN chunk

\* The lines of a text, each without its newline; an unterminated rest counts as a line.
RECURSIVE LinesFrom(_, _)
LinesFrom(text, line) ==
    IF text = <<>> THEN (IF line = <<>> THEN <<>> ELSE <<line>>)
    ELSE IF IsNewline(Head(text)) THEN <<line>> \o LinesFrom(Tail(text), <<>>)
    ELSE LinesFrom(Tail(text), Append(line, Head(text)))

Lines(text) == LinesFrom(text, <<>>)

\* Every line of the text is one complete JSON object followed by its newline.
LineDelimited(text) ==
    /\ text # <<>> => IsNewline(text[Len(text)])
    /\ \A l \in 1..Len(Lines(text)) :
         Len(Lines(text)[l]) = 1 /\ IsJson(Lines(text)[l][1])

\* The JSON objects of a text, in file order.
Objects(text) ==
    LET found == SelectSeq(text, IsJson) IN [l \in 1..Len(found) |-> found[l].json]

\* Those of them that are posts of thread n.
ObjectsOfThread(text, n) == SelectSeq(Objects(text), LAMBDA r : ThreadOf(r.no) = n)

\* A sequence begins with another.
StartsWith(long, short) ==
    Len(long) >= Len(short) /\ SubSeq(long, 1, Len(short)) = short

\* The task has appended its thread-starter records and written its image file.
Written(t) ==
    /\ ObjectsOfThread(FileAt(fs, thread_list_file(args.board)), t.no)
         = ObjectsOfThread(FileAt(fsAtStart, thread_list_file(args.board)), t.no)
             \o thread_starter_data(t.data)
    /\ image_file(args.board, t.no) \in DOMAIN fs
    /\ Objects(fs[image_file(args.board, t.no)]) = images_info(t.data, args.board)

\* C2: when the run is over, every dispatched task has run (its request was
\* issued) and has completed, and every task whose own fetch and writes succeeded
\* has its thread-starter records in thread_list.json and its image file written,
\* whichever of its siblings failed.
C2_SiblingsComplete ==
    runState = "Done" =>
        \A i \in 1..Len(tasks) :
            /\ thread_url(args.board, tasks[i].no) \in requests
            /\ tasks[i].st \in {"ok", "failed"}
            /\ tasks[i].st = "ok" => Written(tasks[i])

\* Three tasks, the fetch of exactly one failed, the two others written.
C2_Witness ==
    /\ runState = "Done"
    /\ Len(tasks) = 3
    /\ \E i \in 1..3 :
         /\ tasks[i].st = "failed" /\ tasks[i].data = NoData
         /\ \A j \in (1..3) \ {i} : tasks[j].st = "ok" /\ Written(tasks[j])
                                     /\ Len(thread_starter_data(tasks[j].data)) > 0

\* A step taken after the selection leaves the run selecting, fetching or Done.
StaysUntilDone ==
    runState \in {"ThreadsSelected", "Fetching"} =>
        /\ runState' \in {"ThreadsSelected", "Fetching", "Done"}
        /\ runState' = "Done" => exitCode' = 0

\* C3: once the threads are selected the run never aborts, whatever its tasks
\* do: it stays in the selection or the fetching until it is Done, with exit
\* status 0.
C3_TaskFailuresNeverAbort == [][StaysUntilDone]_vars

\* A run that reports success with a failed and a written task.
C3_Witness ==
    /\ runState = "Done"
    /\ exitCode = 0
    /\ \E i, j \in 1..Len(tasks) : tasks[i].st = "failed" /\ tasks[j].st = "ok"

\* C4: a failed catalog fetch aborts the run with that error (exit status 1);
\* no thread request was issued, no task dispatched, no file written.
C4_CatalogFailureAborts ==
    exc \in RequestErrors =>
        /\ runState = "Aborted"
        /\ exitCode = 1
        /\ \A url \in requests : ~IsThreadUrl(url)
        /\ tasks = <<>>
        /\ fs = fsAtStart

\* The catalog was requested and the request timed out.
C4_Witness ==
    /\ exc = "Timeout"
    /\ runState = "Aborted"
    /\ catalog_url(args.board) \in requests

\* C5: with a board outside the allow-list the run ends at the construction of
\* the session with a ValueError: no request is issued, no directory created.
C5_InvalidBoardNoIO ==
    (runState # "Idle" /\ \A b \in 1..Len(valid_boards) : valid_boards[b] # args.board)
        => /\ runState = "Aborted"
           /\ exc = "ValueError"
           /\ requests = {}
           /\ dirs = {}
           /\ fs = <<>>

\* The run for board "c" has been refused.
C5_Witness == args.board = "c" /\ runState = "Aborted" /\ exitCode = 1

\* No task is between the arrival of thread n and its own end.
Settled(n) ==
    \A i \in 1..Len(tasks) :
        tasks[i].no = n => (tasks[i].data = NoData \/ tasks[i].st \in {"ok", "failed"})

\* The thread-starter records of all the fetches of a history, oldest first.
AllStarters(h) == Concat([e \in 1..Len(h) |-> thread_starter_data(h[e].data)])

\* The files of a thread all of whose fetches so far were written.
LatestImagesAllStarters ==
    \A n \in DOMAIN history :
        (Settled(n) /\ \A e \in 1..Len(history[n]) : history[n][e].ok) =>
            /\ Objects(FileAt(fs, image_file(args.board, n)))
                 = images_info(history[n][Len(history[n])].data, args.board)
            /\ ObjectsOfThread(FileAt(fs, thread_list_file(args.board)), n)
                 = AllStarters(history[n])

\* A step leaves the files of every such thread so, and removes nothing from
\* thread_list.json.
KeepsLatestAndAll ==
    /\ LatestImagesAllStarters'
    /\ StartsWith(FileAt(fs', thread_list_file(args.board)),
                  FileAt(fs, thread_list_file(args.board)))

\* C6: after successful fetches of a thread, its image file holds the image-post
\* records of the latest fetch and nothing else, thread_list.json holds the
\* thread-starter records of all of them, and no step removes anything from
\* thread_list.json.
C6_OverwriteAndAppend == [][KeepsLatestAndAll]_vars

\* Thread 2 fetched and written in two runs: one image record, then two.
C6_Witness ==
    /\ runState = "Done"
    /\ 2 \in DOMAIN history
    /\ Len(history[2]) = 2
    /\ history[2][1].ok /\ history[2][2].ok
    /\ Len(images_info(history[2][1].data, args.board)) = 1
    /\ Len(Objects(FileAt(fs, image_file(args.board, 2)))) = 2
    /\ Len(ObjectsOfThread(FileAt(fs, thread_list_file(args.board)), 2)) = 2

\* C7: at most 5 tasks are in flight, however many threads were selected.
C7_AtMostFiveInFlight ==
    Cardinality({i \in 1..Len(tasks) :
                    tasks[i].st \notin {"queued", "ok", "failed"}}) <= 5

\* Five tasks in flight while a sixth waits in the queue.
C7_Witness ==
    /\ Cardinality({i \in 1..Len(tasks) :
                       tasks[i].st \notin {"queued", "ok", "failed"}}) = 5
    /\ \E i \in 1..Len(tasks) : tasks[i].st = "queued"

\* C8: every line of thread_list.json is one complete JSON record, and it is a
\* thread-starter record of exactly one task.
C8_WholeLines ==
    LET text == FileAt(fs, thread_list_file(args.board)) IN
    /\ LineDelimited(text)
    /\ \A l \in 1..Len(Objects(text)) :
         Cardinality({i \in 1..Len(tasks) :
                        \E r \in 1..Len(thread_starter_data(tasks[i].data)) :
                            thread_starter_data(tasks[i].data)[r] = Objects(text)[l]}) = 1

\* The lines of two tasks interleaved: a line of one, a line of the other, and
\* the first task's next line.
C8_Witness ==
    LET lines == Objects(FileAt(fs, thread_list_file(args.board))) IN
    /\ Len(lines) >= 3
    /\ ThreadOf(lines[1].no) = ThreadOf(lines[3].no)
    /\ ThreadOf(lines[1].no) # ThreadOf(lines[2].no)

\* C9: the run is Done only when every selected thread was dispatched and every
\* dispatched task has completed.
C9_DoneAfterAllTasks ==
    runState = "Done" =>
        /\ Len(tasks) = Len(selected)
        /\ \A i \in 1..Len(tasks) : tasks[i].st \in {"ok", "failed"}

\* A finished run of three tasks.
C9_Witness == runState = "Done" /\ Len(tasks) = 3

\* C10: every run reaches Done or Aborted, with every task it has dispatched
\* completed or failed.
C10_Terminates ==
    <>(/\ runState \in {"Done", "Aborted"}
       /\ \A i \in 1..Len(tasks) : tasks[i].st \in {"ok", "failed"})

\* A run of three tasks that has ended, a delay after each completion.
C10_Witness ==
    /\ runState = "Done"
    /\ Len(tasks) = 3
    /\ sleeps = 3

-----------------------------------------------------------------------------
(* An offset at or past the end of the catalog. *)

\* The catalog has been fetched and the offset is not below its thread count.
OffsetBeyondCatalog ==
    /\ runState \in {"CatalogFetched", "ThreadsSelected", "Fetching", "Done", "Aborted"}
    /\ exc = "none"
    /\ args.offset >= Len(CatalogNumbers(remote.catalog))

\* Nothing was selected, dispatched, requested, slept for or written, and the
\* run has not failed.
NothingFetched ==
    /\ selected = <<>>
    /\ tasks = <<>>
    /\ \A url \in requests : ~IsThreadUrl(url)
    /\ sleeps = 0
    /\ fs = fsAtStart
    /\ runState # "Aborted"
    /\ runState = "Done" => exitCode = 0

\* C11: with an offset greater than or equal to the number of cataloged threads
\* the selection is empty, no task is dispatched, no thread request is issued,
\* no file is created or modified, and the run ends Done with exit status 0.
C11_OffsetBeyondCatalog ==
    /\ [](OffsetBeyondCatalog => NothingFetched)
    /\ [](OffsetBeyondCatalog => <>(runState = "Done"))

\* A count of 2 from offset 3 of the three-thread catalog: Done, nothing selected.
C11_Witness ==
    /\ runState = "Done"
    /\ args.offset = 3
    /\ args.threads = 2
    /\ Len(CatalogNumbers(remote.catalog)) = 3
    /\ selected = <<>>
    /\ dirs = {base_path(args.board), images_path(args.board)}
    /\ fs = <<>>

-----------------------------------------------------------------------------
(* Extraction. *)

\* The posts of a fetched thread.
PostsOf(t) == IF "posts" \in DOMAIN t.data THEN t.data.posts ELSE <<>>

\* Every post of the thread that has a subject has a post number.
SubjectPostsNumbered(t) ==
    \A j \in 1..Len(PostsOf(t)) :
        "sub" \in DOMAIN PostsOf(t)[j] => "no" \in DOMAIN PostsOf(t)[j]

\* On a healthy disk no task goes from its fetched thread to failed.
StarterExtractionReturns ==
    \A i \in 1..Len(tasks) :
        (disk = "healthy" /\ tasks[i].st = "fetched")
            => tasks'[i].st \in {"fetched", "starter", "saved_starter"}

\* C12, as stated: the extraction of thread starters never raises, whatever
\* fields the posts of the fetched thread have or lack.
C12_NeverRaises == [][StarterExtractionReturns]_vars

\* The same for the threads whose subject posts are numbered; the others raise.
StarterExtractionReturnsIfNumbered ==
    \A i \in 1..Len(tasks) :
        (disk = "healthy" /\ tasks[i].st = "fetched" /\ tasks'[i] # tasks[i])
            => IF SubjectPostsNumbered(tasks[i])
               THEN tasks'[i].st \in {"starter", "saved_starter"}
               ELSE tasks'[i].st = "failed" /\ fs' = fs

\* C12, amended: the extraction of thread starters produces a result for every
\* fetched thread whose posts with a subject all have a post number, whatever
\* other fields its posts have or lack; a post with a subject and without a
\* number raises, which ends the task before anything is written.
C12_TotalWhenNumbered == [][StarterExtractionReturnsIfNumbered]_vars

\* The starters of a thread are saved whose subject post has only its number
\* beside the subject, and whose other post has not even a number.
C12_Witness ==
    \E i \in 1..Len(tasks) :
        /\ tasks[i].st = "saved_starter"
        /\ Len(PostsOf(tasks[i])) = 2
        /\ DOMAIN PostsOf(tasks[i])[1] = {}
        /\ DOMAIN PostsOf(tasks[i])[2] = {"no", "sub"}
        /\ Len(Objects(FileAt(fs, thread_list_file(args.board)))) = 1

\* The positions of the posts that have a subject.
SubjectPositions(posts) == {j \in 1..Len(posts) : "sub" \in DOMAIN posts[j]}

\* The k-th of a set of positions, in increasing order.
Kth(positions, k) ==
    CHOOSE j \in positions : Cardinality({h \in positions : h < j}) = k - 1

\* The records are one for each post with a subject, in the order of the posts.
StartersOf(records, posts) ==
    /\ Len(records) = Cardinality(SubjectPositions(posts))
    /\ \A k \in 1..Len(records) :
         LET post == posts[Kth(SubjectPositions(posts), k)] IN
         /\ records[k].no = post.no
         /\ records[k].sub = post.sub
         /\ records[k].name = (IF "name" \in DOMAIN post THEN post.name ELSE "")
    /\ Len(records) <= Len(posts)
    /\ Len(records) = Len(posts) <=> \A j \in 1..Len(posts) : "sub" \in DOMAIN posts[j]

\* C13: the thread-starter records extracted from a thread, as save_thread_starter
\* has written them, are one record for each post that has a subject, in the
\* order of the posts, and none for any other post: at most as many as there
\* are posts, and as many exactly when every post has a subject.
C13_OnePerSubjectPost ==
    \A i \in 1..Len(tasks) :
        tasks[i].st \in {"saved_starter", "images", "ok"} =>
            StartersOf(Objects(FileAt(fs, thread_list_file(args.board))), PostsOf(tasks[i]))

\* Two posts of which the second alone has a subject: one record, of post 2.
C13_Witness ==
    \E i \in 1..Len(tasks) :
        /\ tasks[i].st = "ok"
        /\ Len(PostsOf(tasks[i])) = 2
        /\ SubjectPositions(PostsOf(tasks[i])) = {2}
        /\ Len(Objects(FileAt(fs, thread_list_file(args.board)))) = 1
        /\ Objects(FileAt(fs, thread_list_file(args.board)))[1].no = 2

\* The positions of the posts that have a media timestamp and an extension.
ImagePositions(posts) ==
    {j \in 1..Len(posts) : "tim" \in DOMAIN posts[j] /\ "ext" \in DOMAIN posts[j]}

\* The records are one for each such post, in the order of the posts, each with
\* the url <image-base>/<board>/<tim><ext> of its post.
ImagesOf(records, posts, board) ==
    /\ Len(records) = Cardinality(ImagePositions(posts))
    /\ \A k \in 1..Len(records) :
         LET post == posts[Kth(ImagePositions(posts), k)] IN
         /\ records[k].no = post.no
         /\ records[k].url = <<"https://i.4cdn.org", "/", board, "/", post.tim, post.ext>>

\* C14: the image-post records extracted from a thread, as save_image_posts has
\* written them, are one for each post that has both tim and ext, with the url
\* <image-base>/<board>/<tim><ext>, and none for a post that lacks either.
C14_ImageUrl ==
    \A i \in 1..Len(tasks) :
        tasks[i].st = "ok" =>
            ImagesOf(Objects(FileAt(fs, image_file(args.board, tasks[i].no))),
                     PostsOf(tasks[i]), args.board)

\* Board po, three kinds of post: tim without ext, ext without tim, and both.
C14_Witness ==
    \E i \in 1..Len(tasks) :
        /\ tasks[i].st = "ok"
        /\ args.board = "po"
        /\ Len(PostsOf(tasks[i])) = 2
        /\ "tim" \in DOMAIN PostsOf(tasks[i])[1] /\ "ext" \notin DOMAIN PostsOf(tasks[i])[1]
        /\ ImagePositions(PostsOf(tasks[i])) = {2}
        /\ Len(Objects(FileAt(fs, image_file(args.board, tasks[i].no)))) = 1
        /\ Objects(FileAt(fs, image_file(args.board, tasks[i].no)))[1].url
             = <<"https://i.4cdn.org", "/", "po", "/", 1002, ".jpg">>

-----------------------------------------------------------------------------
(* The delay after each completion. *)

\* C15: the orchestrator sleeps once for each completion it observes, of a
\* failed task as of a successful one, and observes the next completion only
\* after that sleep has returned: while it waits it has slept once per observed
\* completion, while it sleeps the sleep of the last one is the only one
\* outstanding, and a run of N tasks is Done after exactly N sleeps.
C15_OneDelayPerCompletion ==
    /\ orch = "waiting" => sleeps = Cardinality(observed)
    /\ orch = "sleeping" => sleeps + 1 = Cardinality(observed)
    /\ \A i \in observed : tasks[i].st \in {"ok", "failed"}
    /\ runState = "Done" => sleeps = Len(tasks)

\* The orchestrator in its third sleep, the first two for a failed and for a
\* written task.
C15_Witness ==
    /\ orch = "sleeping"
    /\ sleeps = 2
    /\ Cardinality(observed) = 3
    /\ \E i, j \in observed : tasks[i].st = "failed" /\ tasks[j].st = "ok"

\* The tasks whose thread request is in flight.
InFlightRequests == {i \in 1..Len(tasks) : tasks[i].st = "fetching"}

\* A worker's next step in task i.
WorkerStep(i) ==
    \/ worker_start(i)
    \/ fetch_thread_response(i)
    \/ save_to_json_open(i)
    \/ save_to_json_write(i)

\* C16: the delay holds up the orchestrator alone.  While it sleeps, the next
\* queued thread can be started as soon as fewer than 5 tasks are running, and
\* every running task can take its next step, complete included.
C16_DelayGatesOnlyOrchestrator ==
    orch = "sleeping" =>
        /\ (QueuedTasks # {}
              /\ Cardinality({i \in 1..Len(tasks) :
                     tasks[i].st \notin {"queued", "ok", "failed"}}) < 5)
             => ENABLED (\E i \in 1..Len(tasks) : worker_start(i))
        /\ \A i \in 1..Len(tasks) :
             tasks[i].st \notin {"queued", "ok", "failed"} => ENABLED WorkerStep(i)

\* Five thread requests in flight while the orchestrator sleeps after the
\* first completion.
C16_Witness ==
    /\ orch = "sleeping"
    /\ Cardinality(observed) = 1
    /\ Cardinality(InFlightRequests) = 5

-----------------------------------------------------------------------------
(* Submission order and completion order. *)

\* The tasks that have completed, written or failed.
FinishedTasks == {i \in 1..Len(tasks) : tasks[i].st \in {"ok", "failed"}}

\* C17, as stated: the tasks are submitted in selection order and every
\* ordering of them can occur as the order of their completion, so each of them
\* can be the first to complete: while none has completed, a queued task whose
\* predecessors have all been started can be started too.
C17_AnyCompletionOrder ==
    /\ \A i \in 1..Len(tasks) : tasks[i].no = selected[i]
    /\ \A i \in 1..Len(tasks) :
         (/\ FinishedTasks = {}
          /\ tasks[i].st = "queued"
          /\ \A j \in 1..(i - 1) : tasks[j].st # "queued")
            => ENABLED worker_start(i)

\* C17, amended: the tasks are submitted in selection order and started in that
\* order, and the task at position k of the selection is started, and so
\* completes, only after at least k - 5 of the tasks before it have completed;
\* nothing else constrains the order of completion.
C17_SubmissionOrderOnly ==
    /\ \A i \in 1..Len(tasks) : tasks[i].no = selected[i]
    /\ \A i \in 1..Len(tasks) :
         tasks[i].st # "queued" =>
            /\ \A j \in 1..(i - 1) : tasks[j].st # "queued"
            /\ Cardinality({j \in 1..(i - 1) : tasks[j].st \in {"ok", "failed"}}) >= i - 5

\* The fifth task is the first to complete and to be observed, the requests of
\* the four submitted before it still in flight.
C17_Witness ==
    /\ FinishedTasks = {5}
    /\ observed = {5}
    /\ \A j \in 1..4 : tasks[j].st = "fetching"
    /\ \A j \in 1..5 : tasks[j].no = selected[j]

-----------------------------------------------------------------------------
(* The steps of one task. *)

\* The steps of fetch_and_save_thread in their order: the fetch, the
\* thread-starter save, the image save; each can be the task's last.
TaskOrder ==
    {<<"queued", "fetching">>, <<"fetching", "fetched">>, <<"fetching", "failed">>,
     <<"fetched", "starter">>, <<"fetched", "saved_starter">>, <<"fetched", "failed">>,
     <<"starter", "starter">>, <<"starter", "saved_starter">>, <<"starter", "failed">>,
     <<"saved_starter", "images">>, <<"saved_starter", "ok">>, <<"saved_starter", "failed">>,
     <<"images", "images">>, <<"images", "ok">>, <<"images", "failed">>}

\* The file is the same in both sets of files: there or not, and its content.
SameFile(files1, files2, path) ==
    /\ (path \in DOMAIN files1) = (path \in DOMAIN files2)
    /\ FileAt(files1, path) = FileAt(files2, path)

\* What a step does to task i and to its files.
TaskStepInOrder(i) ==
    LET t == tasks[i]
        list == thread_list_file(args.board)
        imgs == image_file(args.board, t.no)
        appended == ObjectsOfThread(FileAt(fsAtStart, list), t.no)
                        \o thread_starter_data(t.data)
    IN  /\ tasks'[i] # t => <<t.st, tasks'[i].st>> \in TaskOrder
        /\ ~SameFile(fs', fs, imgs)
             => /\ t.st \in {"saved_starter", "images"}
                /\ ObjectsOfThread(FileAt(fs, list), t.no) = appended
        /\ (t.st \in {"fetched", "starter"} /\ tasks'[i].st = "failed")
             => SameFile(fs', fsAtStart, imgs)
        /\ (t.st \in {"saved_starter", "images"} /\ tasks'[i].st = "failed")
             => /\ SameFile(fs', fs, list)
                /\ ObjectsOfThread(FileAt(fs', list), t.no) = appended

\* Every step is a step in order of at most one task, and the thread list is
\* written only by the thread-starter save of a task.
StepsInOrder ==
    /\ Len(tasks') >= Len(tasks)
    /\ \A i \in 1..Len(tasks) : TaskStepInOrder(i)
    /\ ~SameFile(fs', fs, thread_list_file(args.board))
         => \E i \in 1..Len(tasks) :
               tasks[i].st \in {"fetched", "starter"} /\ tasks'[i] # tasks[i]

\* C18: a task fetches its thread, then appends the thread-starter records to
\* thread_list.json, then writes the image file, and ends at the first step
\* that fails: its image file is written only after its thread-starter save has
\* returned, a failed thread-starter save leaves the image file as the run
\* found it, and a failed image save leaves the thread-starter lines in place.
C18_StepsInOrder == [][StepsInOrder]_vars

\* A task whose image save failed after its thread-starter line was appended,
\* beside a task whose thread-starter save failed and which has no image file.
C18_Witness ==
    \E i, j \in 1..Len(tasks) :
        /\ tasks[i].st = "failed" /\ tasks[j].st = "failed"
        /\ image_file(args.board, tasks[i].no) \in DOMAIN fs
        /\ Len(ObjectsOfThread(FileAt(fs, thread_list_file(args.board)), tasks[i].no)) = 1
        /\ tasks[j].data # NoData
        /\ image_file(args.board, tasks[j].no) \notin DOMAIN fs
        /\ ObjectsOfThread(FileAt(fs, thread_list_file(args.board)), tasks[j].no) = <<>>

\* The task has failed in fetch_thread: no thread_data has arrived.
FetchFailed(t) == t.st = "failed" /\ t.data = NoData

\* C19: a task whose thread fetch has failed leaves the output files as the run
\* found them: the lines of its thread in thread_list.json are those of the
\* earlier runs, and its image file is neither created nor truncated nor
\* changed, so the one an earlier run wrote keeps its contents.
C19_FailedFetchWritesNothing ==
    \A i \in 1..Len(tasks) :
        FetchFailed(tasks[i]) =>
            /\ SameFile(fs, fsAtStart, image_file(args.board, tasks[i].no))
            /\ ObjectsOfThread(FileAt(fs, thread_list_file(args.board)), tasks[i].no)
                 = ObjectsOfThread(FileAt(fsAtStart, thread_list_file(args.board)),
                                   tasks[i].no)

\* The second run fails to fetch thread 2, whose image file and thread-starter
\* line the first run had written, while thread 1 is written again.
C19_Witness ==
    /\ runState = "Done"
    /\ runsLeft = 0
    /\ Len(tasks) = 2
    /\ tasks[1].no = 2 /\ FetchFailed(tasks[1])
    /\ tasks[2].st = "ok"
    /\ Len(Objects(FileAt(fs, image_file(args.board, 2)))) = 1
    /\ Len(Objects(FileAt(fs, image_file(args.board, 1)))) = 2
    /\ Len(ObjectsOfThread(FileAt(fs, thread_list_file(args.board)), 2)) = 1

-----------------------------------------------------------------------------
(* A write that fails. *)

\* The files save_to_json has open: the task is inside the with block.
OpenHandles == {i \in 1..Len(tasks) : tasks[i].st \in {"starter", "images"}}

\* Task i, k records of its save written, takes a step that adds nothing to
\* the file.
WriteFailsIn(i) ==
    /\ i \in OpenHandles
    /\ tasks'[i] # tasks[i]
    /\ Len(FileAt(fs', CurrentSave(args.board, tasks[i]).filename))
         <= Len(FileAt(fs, CurrentSave(args.board, tasks[i]).filename))

\* The k records written stay, the task has the error, the file is closed.
WriteFailureKeepsLines ==
    \A i \in 1..Len(tasks) :
        WriteFailsIn(i) =>
            LET save == CurrentSave(args.board, tasks[i])
                written == SubSeq(save.data, 1, tasks[i].k)
            IN  /\ fs' = fs
                /\ tasks'[i].st = "failed"
                /\ i \notin OpenHandles'
                /\ IF save.append
                   THEN ObjectsOfThread(FileAt(fs', save.filename), tasks[i].no)
                          = ObjectsOfThread(FileAt(fsAtStart, save.filename), tasks[i].no)
                              \o written
                   ELSE Objects(FileAt(fs', save.filename)) = written

\* C20: when a write of save_to_json fails after k records, the k lines stay
\* in the file (in overwrite mode they are all the file holds, whatever it held
\* before), the task that called gets the error and ends, and the file is
\* closed.
C20_NoRollback == [][WriteFailureKeepsLines]_vars

\* The second run's image save of a thread failed after one record of two: the
\* file the first run wrote holds that one line.
C20_Witness ==
    \E i \in 1..Len(tasks) :
        /\ runsLeft = 0
        /\ tasks[i].st = "failed"
        /\ tasks[i].k = 1
        /\ tasks[i].data # NoData
        /\ Len(images_info(tasks[i].data, args.board)) = 2
        /\ image_file(args.board, tasks[i].no) \in DOMAIN fsAtStart
        /\ Len(Objects(FileAt(fs, image_file(args.board, tasks[i].no)))) = 1
        /\ Len(ObjectsOfThread(FileAt(fs, thread_list_file(args.board)), tasks[i].no)) = 2

====
